---- MODULE Spec2Model ----
(***************************************************************************)
(* Model of app/userDetails.js: the module object with its two             *)
(* collaborators checkUserDetails and displayErrorMessage and the decision *)
(* function verifyUserDetails, executed statement by statement.            *)
(*                                                                         *)
(* JavaScript values are records [type, val] so that the strict equality   *)
(* of the source (===) is modelled by what it does: 1, "1" and undefined   *)
(* are three different values.                                             *)
(***************************************************************************)
EXTENDS Integers, Sequences, FiniteSets

VARIABLES
    spied,      \* TRUE once checkUserDetails has been replaced by a stub
    frames,     \* one activation record of verifyUserDetails per caller
    history     \* outcomes of the completed calls of the sequential driver

vars == <<spied, frames, history>>

----------------------------------------------------------------------------
(* Bounds of the model *)

NumCallers == 2

MaxCalls == 3

Callers == 1..NumCallers

----------------------------------------------------------------------------
(* JavaScript values *)

Num(n) == [type |-> "number", val |-> n]

Str(s) == [type |-> "string", val |-> s]

Bool(b) == [type |-> "boolean", val |-> b]

Undefined == [type |-> "undefined", val |-> "undefined"]

\* ToNumber of the string values used here (only read by loose equality).
ToNumber(s) == IF s = "1" THEN 1 ELSE IF s = "0" THEN 0 ELSE 99

\* a == b of JavaScript on these values; the source never uses it.
LooseEquals(a, b) ==
    IF a.type = b.type THEN a.val = b.val
    ELSE IF a.type = "string" /\ b.type = "number" THEN ToNumber(a.val) = b.val
    ELSE IF a.type = "number" /\ b.type = "string" THEN a.val = ToNumber(b.val)
    ELSE FALSE

\* a === b of JavaScript: same type and same value.
StrictEquals(a, b) == a.type = b.type /\ a.val = b.val

----------------------------------------------------------------------------
(* Inputs *)

\* this.username of the three suites.
Usernames == {"batman", "robin", "joker"}

\* What a stubbed checkUserDetails may return: the three recognised codes,
\* an unrecognised number, the string "1" and nothing at all.
Responses == {Num(1), Num(0), Num(-1), Num(2), Str("1"), Undefined}

----------------------------------------------------------------------------
(* The module object *)

NoAdminRights == "You do not have admin rights to this system"

NotRecognised == "User details not recognised"

\* Mutant of CheckReturns: the module's own checkUserDetails is not empty
\* but answers -1 for everybody.
CheckReturnsNobodyKnown == IF spied THEN Responses ELSE {Num(-1)}

\* checkUserDetails: function() {}  -- the module's own collaborator returns
\* undefined; a stub returns whatever it was told to return.
CheckReturns == IF spied THEN Responses ELSE {Undefined}

\* A call of a collaborator, as a spy records it.
CallOf(fn, arg) == [fn |-> fn, arg |-> arg]

\* Activation record before the first call of a caller.
IdleFrame ==
    [pc |-> "idle", username |-> Undefined, userVerified |-> Undefined,
     response |-> Undefined, calls |-> <<>>, result |-> Undefined]

\* Lines 7-8: parameters bound, var userVerified = false, response hoisted.
NewFrame(username) ==
    [pc |-> "line9", username |-> Str(username), userVerified |-> Bool(FALSE),
     response |-> Undefined, calls |-> <<>>, result |-> Undefined]

\* Mutant of BranchTarget: loose equality (==) in place of ===.
BranchTargetLoose(response) ==
    IF LooseEquals(response, Num(1)) THEN "line12"
    ELSE IF LooseEquals(response, Num(0)) THEN "line14"
    ELSE IF LooseEquals(response, Num(-1)) THEN "line16"
    ELSE "line19"

\* Mutant of BranchTarget: the response === 0 branch is missing.
BranchTargetNoZero(response) ==
    IF StrictEquals(response, Num(1)) THEN "line12"
    ELSE IF StrictEquals(response, Num(-1)) THEN "line16"
    ELSE "line19"

\* Mutant of BranchTarget: a plain else in place of else if( response === -1 ).
BranchTargetElse(response) ==
    IF StrictEquals(response, Num(1)) THEN "line12"
    ELSE IF StrictEquals(response, Num(0)) THEN "line14"
    ELSE "line16"

\* Lines 11, 13, 15: the statement the if / else-if chain selects.
BranchTarget(response) ==
    IF StrictEquals(response, Num(1)) THEN "line12"
    ELSE IF StrictEquals(response, Num(0)) THEN "line14"
    ELSE IF StrictEquals(response, Num(-1)) THEN "line16"
    ELSE "line19"

\* Mutant of MessageAt: the same literal on both branches.
MessageAtSame(pc) == Str(NoAdminRights)

\* The literal passed to displayErrorMessage at line 14 and at line 16.
MessageAt(pc) == IF pc = "line14" THEN Str(NoAdminRights) ELSE Str(NotRecognised)

----------------------------------------------------------------------------
(* Steps of verifyUserDetails *)

\* Mutant of Call: userVerified lives outside the function and is set to
\* false only once, so a later call starts from the value the last one left.
CallKeepVerified(c, username) ==
    /\ frames[c].pc \in {"idle", "done"}
    /\ frames' = [frames EXCEPT ![c] =
                     [NewFrame(username) EXCEPT !.userVerified =
                         IF frames[c].pc = "done" THEN frames[c].userVerified
                         ELSE Bool(FALSE)]]
    /\ UNCHANGED <<spied, history>>

\* userDetails.verifyUserDetails( username ): entry, lines 7-8.
Call(c, username) ==
    /\ frames[c].pc \in {"idle", "done"}
    /\ frames' = [frames EXCEPT ![c] = NewFrame(username)]
    /\ UNCHANGED <<spied, history>>

\* Mutant of CheckUserDetails: the collaborator is called without the username.
CheckUserDetailsNoArgument(c) ==
    /\ frames[c].pc = "line9"
    /\ \E r \in CheckReturns :
          frames' = [frames EXCEPT
                        ![c].calls = Append(@, CallOf("checkUserDetails", Undefined)),
                        ![c].response = r,
                        ![c].pc = "line11"]
    /\ UNCHANGED <<spied, history>>

\* Line 9: var response = this.checkUserDetails( username );
CheckUserDetails(c) ==
    /\ frames[c].pc = "line9"
    /\ \E r \in CheckReturns :
          frames' = [frames EXCEPT
                        ![c].calls = Append(@, CallOf("checkUserDetails", frames[c].username)),
                        ![c].response = r,
                        ![c].pc = "line11"]
    /\ UNCHANGED <<spied, history>>

\* Mutant of Branch: an unrecognised response makes the function ask again.
BranchRetry(c) ==
    /\ frames[c].pc = "line11"
    /\ frames' = [frames EXCEPT ![c].pc =
                     IF BranchTarget(frames[c].response) = "line19" THEN "line9"
                     ELSE BranchTarget(frames[c].response)]
    /\ UNCHANGED <<spied, history>>

\* Lines 11, 13, 15: evaluate the conditions in order, first match wins.
Branch(c) ==
    /\ frames[c].pc = "line11"
    /\ frames' = [frames EXCEPT ![c].pc = BranchTarget(frames[c].response)]
    /\ UNCHANGED <<spied, history>>

\* Mutant of Grant: the granting branch falls through into the next one.
GrantFallThrough(c) ==
    /\ frames[c].pc = "line12"
    /\ frames' = [frames EXCEPT ![c].userVerified = Bool(TRUE), ![c].pc = "line14"]
    /\ UNCHANGED <<spied, history>>

\* Mutant of Grant: userVerified is an implicit global (no var), one variable
\* for every invocation in progress.
GrantGlobal(c) ==
    /\ frames[c].pc = "line12"
    /\ frames' = [d \in Callers |->
                     IF d = c
                     THEN [frames[d] EXCEPT !.userVerified = Bool(TRUE), !.pc = "line19"]
                     ELSE IF frames[d].pc \in {"idle", "done"} THEN frames[d]
                     ELSE [frames[d] EXCEPT !.userVerified = Bool(TRUE)]]
    /\ UNCHANGED <<spied, history>>

\* Line 12: userVerified = true;
Grant(c) ==
    /\ frames[c].pc = "line12"
    /\ frames' = [frames EXCEPT ![c].userVerified = Bool(TRUE), ![c].pc = "line19"]
    /\ UNCHANGED <<spied, history>>

\* Mutant of DisplayErrorMessage: the username is put in front of the message.
DisplayErrorMessageNamed(c) ==
    /\ frames[c].pc \in {"line14", "line16"}
    /\ frames' = [frames EXCEPT
                     ![c].calls = Append(@, CallOf("displayErrorMessage",
                         Str(frames[c].username.val \o ": " \o MessageAt(frames[c].pc).val))),
                     ![c].pc = "line19"]
    /\ UNCHANGED <<spied, history>>

\* Lines 14 and 16: this.displayErrorMessage( '...' );
DisplayErrorMessage(c) ==
    /\ frames[c].pc \in {"line14", "line16"}
    /\ frames' = [frames EXCEPT
                     ![c].calls = Append(@, CallOf("displayErrorMessage", MessageAt(frames[c].pc))),
                     ![c].pc = "line19"]
    /\ UNCHANGED <<spied, history>>

\* Mutant of ReturnFrame: the function may return as soon as the branch is
\* chosen, leaving the message for later.
ReturnFrameEarly(c) ==
    /\ frames[c].pc \in {"line14", "line16", "line19"}
    /\ frames' = [frames EXCEPT ![c].result = frames[c].userVerified, ![c].pc = "done"]

\* Line 19: return userVerified;
ReturnFrame(c) ==
    /\ frames[c].pc = "line19"
    /\ frames' = [frames EXCEPT ![c].result = frames[c].userVerified, ![c].pc = "done"]

Return(c) ==
    /\ ReturnFrame(c)
    /\ UNCHANGED <<spied, history>>

\* spyOn( userDetails, 'checkUserDetails' ) and and.returnValue( ... ).
SpyOn ==
    /\ ~spied
    /\ spied' = TRUE
    /\ UNCHANGED <<frames, history>>

----------------------------------------------------------------------------
(* Callers that may interleave at every statement *)

Init ==
    /\ spied = FALSE
    /\ frames = [c \in Callers |-> IdleFrame]
    /\ history = <<>>

Next ==
    \/ SpyOn
    \/ \E c \in Callers : \E u \in Usernames : Call(c, u)
    \/ \E c \in Callers : CheckUserDetails(c)
    \/ \E c \in Callers : Branch(c)
    \/ \E c \in Callers : Grant(c)
    \/ \E c \in Callers : DisplayErrorMessage(c)
    \/ \E c \in Callers : Return(c)

Spec == Init /\ [][Next]_vars

----------------------------------------------------------------------------
(* One caller at a time, each call run to completion and its outcome logged *)

\* The outcome of a completed call: what went in and what came out.
Outcome(f) ==
    [username |-> f.username, response |-> f.response,
     result |-> f.result, calls |-> f.calls]

SeqCall(c, username) ==
    /\ c = 1
    /\ Len(history) < MaxCalls
    /\ Call(c, username)

SeqStep(c) ==
    /\ c = 1
    /\ \/ CheckUserDetails(c)
       \/ Branch(c)
       \/ Grant(c)
       \/ DisplayErrorMessage(c)

SeqReturn(c) ==
    /\ c = 1
    /\ ReturnFrame(c)
    /\ history' = Append(history, Outcome(frames'[c]))
    /\ UNCHANGED spied

SeqNext ==
    \/ SpyOn
    \/ \E c \in Callers : \E u \in Usernames : SeqCall(c, u)
    \/ \E c \in Callers : SeqStep(c)
    \/ \E c \in Callers : SeqReturn(c)

SeqSpec == Init /\ [][SeqNext]_vars

----------------------------------------------------------------------------
(* Every started call keeps executing: the statements of a synchronous     *)
(* function run one after the other until the return.                     *)

Step(c) ==
    \/ CheckUserDetails(c)
    \/ Branch(c)
    \/ Grant(c)
    \/ DisplayErrorMessage(c)
    \/ Return(c)

LiveSpec == Init /\ [][Next]_vars /\ \A c \in Callers : WF_vars(Step(c))

----------------------------------------------------------------------------
(* Observations on an activation record *)

Running(f) == f.pc \notin {"idle", "done"}

Returned(f) == f.pc = "done"

CallsTo(f, fn) == SelectSeq(f.calls, LAMBDA e : e.fn = fn)

Reports(f) == CallsTo(f, "displayErrorMessage")

Recognised == {Num(1), Num(0), Num(-1)}

UsernameValues == {Str(u) : u \in Usernames}

CheckCall(f) == CallOf("checkUserDetails", f.username)

ReportCall(message) == CallOf("displayErrorMessage", Str(message))

----------------------------------------------------------------------------
(* Claims *)

\* C1: a completed call returns true if and only if checkUserDetails
\* returned the number 1; for every other returned value it returns false.
C1_TrueIffOne ==
    \A c \in Callers :
        Returned(frames[c]) =>
            /\ (frames[c].result = Bool(TRUE)) <=> (frames[c].response = Num(1))
            /\ (frames[c].response # Num(1)) => (frames[c].result = Bool(FALSE))

C1_Witness ==
    \E c, d \in Callers :
        /\ Returned(frames[c]) /\ Returned(frames[d])
        /\ frames[c].response = Num(1) /\ frames[c].result = Bool(TRUE)
        /\ frames[d].response = Str("1") /\ frames[d].result = Bool(FALSE)

\* C2: when checkUserDetails returned 0 the call returns false and
\* displayErrorMessage was called exactly once, with the no-admin-rights
\* message and with no other message.
C2_NoAdminRights ==
    \A c \in Callers :
        (Returned(frames[c]) /\ frames[c].response = Num(0)) =>
            /\ frames[c].result = Bool(FALSE)
            /\ Reports(frames[c]) = <<ReportCall(NoAdminRights)>>

C2_Witness ==
    \E c \in Callers :
        /\ Returned(frames[c])
        /\ frames[c].response = Num(0)
        /\ frames[c].username = Str("robin")
        /\ Len(Reports(frames[c])) = 1

\* C3: when checkUserDetails returned -1 the call returns false and
\* displayErrorMessage was called exactly once, with the not-recognised
\* message and with no other message.
C3_NotRecognised ==
    \A c \in Callers :
        (Returned(frames[c]) /\ frames[c].response = Num(-1)) =>
            /\ frames[c].result = Bool(FALSE)
            /\ Reports(frames[c]) = <<ReportCall(NotRecognised)>>

C3_Witness ==
    \E c \in Callers :
        /\ Returned(frames[c])
        /\ frames[c].response = Num(-1)
        /\ frames[c].username = Str("joker")
        /\ Len(Reports(frames[c])) = 1

\* C4: a call never invokes checkUserDetails more than once, has invoked it
\* exactly once as soon as line 9 is passed (so on every branch and at the
\* return), and passes it the caller's username unmodified.
C4_CheckedExactlyOnce ==
    \A c \in Callers :
        /\ Len(CallsTo(frames[c], "checkUserDetails")) <= 1
        /\ frames[c].pc \notin {"idle", "line9"} =>
              /\ CallsTo(frames[c], "checkUserDetails") = <<CheckCall(frames[c])>>
              /\ frames[c].username \in UsernameValues

C4_Witness ==
    \E c, d \in Callers :
        /\ Returned(frames[c]) /\ Returned(frames[d])
        /\ frames[c].response = Num(1) /\ frames[d].response = Num(2)
        /\ CallsTo(frames[c], "checkUserDetails") = <<CallOf("checkUserDetails", Str("batman"))>>
        /\ CallsTo(frames[d], "checkUserDetails") = <<CallOf("checkUserDetails", Str("joker"))>>

\* C5: a call invokes displayErrorMessage at most once, and only when
\* checkUserDetails returned 0 or -1; never when it returned 1.
C5_ReportOnlyOnDenial ==
    \A c \in Callers :
        /\ Len(Reports(frames[c])) <= 1
        /\ Reports(frames[c]) # <<>> => frames[c].response \in {Num(0), Num(-1)}
        /\ frames[c].response = Num(1) => Reports(frames[c]) = <<>>

C5_Witness ==
    \E c, d \in Callers :
        /\ Returned(frames[c]) /\ Returned(frames[d])
        /\ frames[c].response = Num(1) /\ Reports(frames[c]) = <<>>
        /\ frames[d].response = Num(0) /\ Len(Reports(frames[d])) = 1

\* C6: idempotence.  Among the completed calls of a sequence, any two made
\* with the same username and the same checkUserDetails response returned
\* the same value and made the same number of displayErrorMessage calls.
C6_Idempotent ==
    \A i, j \in DOMAIN history :
        (/\ history[i].username = history[j].username
         /\ history[i].response = history[j].response) =>
            /\ history[i].result = history[j].result
            /\ Len(Reports(history[i])) = Len(Reports(history[j]))

C6_Witness ==
    \E i, j, k \in DOMAIN history :
        /\ i < k /\ k < j
        /\ history[i].username = history[j].username
        /\ history[i].response = Num(0) /\ history[j].response = Num(0)
        /\ history[k].response = Num(1)
        /\ Len(Reports(history[j])) = 1

\* C7: interleaved calls are independent.  A step of one call changes no
\* other call's activation record, and any two completed calls that were
\* handed the same response have the same return value and the same
\* displayErrorMessage calls, whatever the other call's username, response
\* or progress was.
C7_FramesIsolated ==
    \A c \in Callers : \A d \in Callers \ {c} :
        frames'[c] # frames[c] => frames'[d] = frames[d]

C7_SameResponseSameOutcome ==
    \A c, d \in Callers :
        (/\ Returned(frames[c]) /\ Returned(frames[d])
         /\ frames[c].response = frames[d].response) =>
            /\ frames[c].result = frames[d].result
            /\ Reports(frames[c]) = Reports(frames[d])

C7_Independent == [][C7_FramesIsolated]_vars /\ []C7_SameResponseSameOutcome

C7_Witness ==
    \E c \in Callers : \E d \in Callers \ {c} :
        /\ Returned(frames[c])
        /\ frames[c].response = Num(0) /\ frames[c].result = Bool(FALSE)
        /\ frames[d].pc = "line19"
        /\ frames[d].response = Num(1) /\ frames[d].userVerified = Bool(TRUE)
        /\ frames[d].username # frames[c].username

\* C8: every call that has started reaches its return; what it returns is a
\* boolean; and within one call control never goes back to the
\* checkUserDetails call or repeats a displayErrorMessage call.
C8_NoRetry ==
    \A c \in Callers :
        /\ (frames[c].pc # "line9" /\ frames'[c].pc = "line9") =>
              frames[c].pc \in {"idle", "done"}
        /\ Running(frames[c]) => Len(frames'[c].calls) <= Len(frames[c].calls) + 1
        /\ Len(CallsTo(frames'[c], "checkUserDetails")) <= 1
        /\ Len(Reports(frames'[c])) <= 1

C8_ReturnsBoolean ==
    \A c \in Callers : Returned(frames[c]) => frames[c].result.type = "boolean"

C8_Terminates ==
    /\ \A c \in Callers : Running(frames[c]) ~> Returned(frames[c])
    /\ []C8_ReturnsBoolean
    /\ [][C8_NoRetry]_vars

C8_Witness ==
    \E c, d \in Callers :
        /\ Returned(frames[c]) /\ Returned(frames[d])
        /\ frames[c].response = Undefined /\ frames[c].result.type = "boolean"
        /\ frames[d].response = Num(-1) /\ frames[d].result.type = "boolean"

\* C9: when checkUserDetails returned anything other than 1, 0 or -1 the
\* call returns false and displayErrorMessage is not called at all.
C9_SilentDeny ==
    \A c \in Callers :
        (Returned(frames[c]) /\ frames[c].response \notin Recognised) =>
            /\ frames[c].result = Bool(FALSE)
            /\ Reports(frames[c]) = <<>>

C9_Witness ==
    \E c, d \in Callers :
        /\ Returned(frames[c]) /\ Returned(frames[d])
        /\ frames[c].response = Num(2) /\ frames[c].result = Bool(FALSE)
        /\ frames[d].response = Undefined /\ frames[d].result = Bool(FALSE)
        /\ spied

\* C10: the events of a call come in the order checkUserDetails, branch,
\* optional displayErrorMessage, return.  displayErrorMessage is called only
\* after checkUserDetails has returned and the branch was taken; the return
\* happens only once the displayErrorMessage call of the chosen branch has
\* been made; and nothing is called after the return.
C10_CallsInOrder ==
    \A c \in Callers :
        /\ Reports(frames[c]) # <<>> =>
              /\ Len(frames[c].calls) >= 2
              /\ frames[c].calls[1] = CheckCall(frames[c])
              /\ frames[c].calls[Len(frames[c].calls)].fn = "displayErrorMessage"
              /\ frames[c].pc \in {"line19", "done"}
        /\ (Returned(frames[c]) /\ frames[c].response \in {Num(0), Num(-1)}) =>
              Reports(frames[c]) # <<>>

C10_StepInOrder ==
    \A c \in Callers :
        /\ Len(frames'[c].calls) > Len(frames[c].calls) =>
              /\ ~Returned(frames'[c])
              /\ \/ frames[c].pc = "line9"
                 \/ /\ frames[c].pc \in {"line14", "line16"}
                    /\ frames[c].calls = <<CheckCall(frames[c])>>
        /\ (frames[c].pc = "line11" /\ frames'[c].pc # "line11") =>
              /\ frames'[c].calls = frames[c].calls
              /\ ~Returned(frames'[c])
        /\ (~Returned(frames[c]) /\ Returned(frames'[c])) =>
              /\ frames[c].pc = "line19"
              /\ frames'[c].calls = frames[c].calls
        /\ (Returned(frames[c]) /\ Returned(frames'[c])) =>
              frames'[c] = frames[c]

C10_FixedOrder == []C10_CallsInOrder /\ [][C10_StepInOrder]_vars

C10_Witness ==
    \E c \in Callers :
        /\ Returned(frames[c])
        /\ frames[c].calls = <<CheckCall(frames[c]), ReportCall(NotRecognised)>>
        /\ frames[c].result = Bool(FALSE)

\* C11: the return value and the displayErrorMessage call are determined by
\* the response alone.  Any two completed calls that were handed the same
\* response, whatever their usernames, returned the same value and made the
\* same displayErrorMessage calls; every message is one of the two fixed
\* literals; and the username appears only as the argument of
\* checkUserDetails.
C11_UsernameIrrelevant ==
    /\ \A i, j \in DOMAIN history :
          history[i].response = history[j].response =>
             /\ history[i].result = history[j].result
             /\ Reports(history[i]) = Reports(history[j])
    /\ \A i \in DOMAIN history : \A k \in DOMAIN history[i].calls :
          IF history[i].calls[k].fn = "checkUserDetails"
          THEN history[i].calls[k].arg = history[i].username
          ELSE history[i].calls[k].arg \in {Str(NoAdminRights), Str(NotRecognised)}

C11_Witness ==
    \E i, j \in DOMAIN history :
        /\ history[i].username = Str("batman")
        /\ history[j].username = Str("joker")
        /\ history[i].response = Num(0) /\ history[j].response = Num(0)
        /\ history[i].result = Bool(FALSE) /\ history[j].result = Bool(FALSE)
        /\ Reports(history[i]) = <<ReportCall(NoAdminRights)>>
        /\ Reports(history[j]) = <<ReportCall(NoAdminRights)>>

\* C12: as long as checkUserDetails has not been replaced, the module's own
\* empty function hands every call a value that is none of 1, 0, -1, every
\* completed call has returned false, and displayErrorMessage has not been
\* called by any call, whatever the username.
C12_ShippedModuleDeniesAll ==
    ~spied =>
        \A c \in Callers :
            /\ frames[c].response \notin Recognised
            /\ Returned(frames[c]) => frames[c].result = Bool(FALSE)
            /\ Reports(frames[c]) = <<>>

C12_Witness ==
    \E c, d \in Callers :
        /\ ~spied
        /\ Returned(frames[c]) /\ Returned(frames[d])
        /\ frames[c].username = Str("batman") /\ frames[d].username = Str("joker")
        /\ frames[c].calls = <<CheckCall(frames[c])>>
        /\ frames[d].calls = <<CheckCall(frames[d])>>
        /\ frames[c].result = Bool(FALSE) /\ frames[d].result = Bool(FALSE)

====
